---- MODULE Spec2Model ----
(***************************************************************************)
(* A model of the banking backend of src/app.py: the domain classes        *)
(* (Transaction, BankAccount, Bank), the Flask handlers around the single *)
(* module-level Bank, and the same handlers run by two threads with no    *)
(* lock.                                                                   *)
(*                                                                         *)
(* Money is a Python float in the source: the handlers pass every amount  *)
(* through float().  The model draws amounts from a small range of        *)
(* integers (whole currency units, on which float arithmetic is exact)    *)
(* and from NaN, which float() accepts and on which every comparison is   *)
(* false.  Infinities and rounding are outside the model.                 *)
(***************************************************************************)
EXTENDS Integers, Sequences, FiniteSets, TLC

VARIABLES
    accounts,   \* bank.accounts: account number -> BankAccount
    customers,  \* bank.customers: email -> Person
    now,        \* datetime.datetime.now(), in whole seconds
    last,       \* the request being served and its response; Idle between requests
    threads     \* the requests in flight when handlers run concurrently

vars == <<accounts, customers, now, last, threads>>

(***************************************************************************)
(* Bounds of the model.                                                    *)
(***************************************************************************)
MaxAmount == 2      \* largest amount a request carries
MaxTxns == 2        \* transactions recorded in the whole bank
MaxTime == 2        \* advances of the clock

\* datetime.timedelta(days=1), in seconds
SecondsPerDay == 86400
\* the whole days between datetime.min and the start of the server, whose
\* clock reads 0 then: datetime.now() less a timedelta of more days is no date
DaysSinceMin == 739924
\* timedelta.max.days, the most days a timedelta holds
TimedeltaMaxDays == 999999999
\* the days of a history request: negative, zero, up to the age of the oldest
\* account, and more than the dates before now
Days == ((-1)..MaxTime) \cup {TimedeltaMaxDays}

\* random.randint(10000000, 99999999), as the two ends of its range
AccountNumbers == {10000000, 99999999}
\* an account number of a request: one the generator can produce, or 0 for
\* a path parameter it never produces
RequestNumbers == AccountNumbers \cup {0}
\* a float: the number v, or float("nan")
Float(v) == [num |-> v]
NaN == [nan |-> TRUE]
\* amounts of a request: negative, zero, positive, and not a number
Amounts == {Float(v) : v \in (-1)..MaxAmount} \cup {NaN}
\* random.randint(1000, 9999), as the two ends of its range
Suffixes == {1000, 9999}
AccountTypes == {"savings", "checking", "business", "student"}
\* Person objects a creation request describes; two share an email
Persons ==
    { [email |-> "ann@x", first_name |-> "Ann"],
      [email |-> "ann@x", first_name |-> "Anna"],
      [email |-> "bob@x", first_name |-> "Bob"] }

NoDescription == <<>>

(***************************************************************************)
(* Python's float arithmetic and comparisons                               *)
(***************************************************************************)
IsNaN(x) == x = NaN
Plus(a, b) == IF IsNaN(a) \/ IsNaN(b) THEN NaN ELSE Float(a.num + b.num)
Minus(a, b) == IF IsNaN(a) \/ IsNaN(b) THEN NaN ELSE Float(a.num - b.num)
Less(a, b) == ~IsNaN(a) /\ ~IsNaN(b) /\ a.num < b.num
LessEq(a, b) == ~IsNaN(a) /\ ~IsNaN(b) /\ a.num <= b.num
Greater(a, b) == ~IsNaN(a) /\ ~IsNaN(b) /\ a.num > b.num
GreaterEq(a, b) == ~IsNaN(a) /\ ~IsNaN(b) /\ a.num >= b.num

(***************************************************************************)
(* Transaction, BankAccount                                                *)
(***************************************************************************)
_generate_transaction_id(t, sfx) == <<"TXN", t, sfx>>

Transaction(transaction_id, account_number, transaction_type, amount, description, t) ==
    [ transaction_id |-> transaction_id,
      account_number |-> account_number,
      transaction_type |-> transaction_type,
      amount |-> amount,
      description |-> description,
      timestamp |-> t,
      status |-> "completed" ]

\* mutant: no key of the table matches, every type gets the default rate
Mutant_rate_is_default(account_type) == 10

\* interest rates in thousandths: 0.02, 0.001, 0.015, 0.025, default 0.01
_get_interest_rate(account_type) ==
    CASE account_type = "savings" -> 20
      [] account_type = "checking" -> 1
      [] account_type = "business" -> 15
      [] account_type = "student" -> 25
      [] OTHER -> 10

\* mutant: the constructor records the initial balance as a deposit
Mutant_BankAccount_records_initial(account_number, account_holder, account_type, initial_balance, t) ==
    [ account_number |-> account_number,
      account_holder |-> account_holder,
      account_type |-> account_type,
      balance |-> initial_balance,
      interest_rate |-> _get_interest_rate(account_type),
      is_active |-> TRUE,
      date_opened |-> t,
      transactions |->
        IF Greater(initial_balance, Float(0))
        THEN <<Transaction(_generate_transaction_id(t, 1000), account_number,
                           "deposit", initial_balance, <<>>, t)>>
        ELSE <<>> ]

BankAccount(account_number, account_holder, account_type, initial_balance, t) ==
    [ account_number |-> account_number,
      account_holder |-> account_holder,
      account_type |-> account_type,
      balance |-> initial_balance,
      interest_rate |-> _get_interest_rate(account_type),
      is_active |-> TRUE,
      date_opened |-> t,
      transactions |-> <<>> ]

\* The outcome of a method call: the message of the ValueError it raised
\* ("" when it returned), its return value, and the object afterwards.
Raised(msg, self) == [raised |-> msg, ret |-> FALSE, self |-> self]
Returned(ret, self) == [raised |-> "", ret |-> ret, self |-> self]

\* mutant: the amount check is amount < 0, so a deposit of zero is recorded
Mutant_deposit_accepts_zero(self, amount, description, t, sfx) ==
    IF Less(amount, Float(0)) THEN Raised("Deposit amount must be positive", self)
    ELSE IF ~self.is_active THEN Raised("Account is not active", self)
    ELSE Returned(TRUE,
            [self EXCEPT
                !.balance = Plus(@, amount),
                !.transactions = Append(@,
                    Transaction(_generate_transaction_id(t, sfx), self.account_number,
                                "deposit", amount, description, t))])

\* mutant: the transaction is inserted at the head of the list
Mutant_deposit_prepends(self, amount, description, t, sfx) ==
    IF LessEq(amount, Float(0)) THEN Raised("Deposit amount must be positive", self)
    ELSE IF ~self.is_active THEN Raised("Account is not active", self)
    ELSE Returned(TRUE,
            [self EXCEPT
                !.balance = Plus(@, amount),
                !.transactions =
                    <<Transaction(_generate_transaction_id(t, sfx), self.account_number,
                                  "deposit", amount, description, t)>> \o @])

\* mutant: a deposit that carries a description, as the leg of a transfer
\* does, is recorded with the type TRANSFER
Mutant_deposit_records_transfer(self, amount, description, t, sfx) ==
    IF LessEq(amount, Float(0)) THEN Raised("Deposit amount must be positive", self)
    ELSE IF ~self.is_active THEN Raised("Account is not active", self)
    ELSE Returned(TRUE,
            [self EXCEPT
                !.balance = Plus(@, amount),
                !.transactions = Append(@,
                    Transaction(_generate_transaction_id(t, sfx), self.account_number,
                                IF description = NoDescription THEN "deposit"
                                ELSE "transfer",
                                amount, description, t))])

BankAccount_deposit(self, amount, description, t, sfx) ==
    IF LessEq(amount, Float(0)) THEN Raised("Deposit amount must be positive", self)
    ELSE IF ~self.is_active THEN Raised("Account is not active", self)
    ELSE Returned(TRUE,
            [self EXCEPT
                !.balance = Plus(@, amount),
                !.transactions = Append(@,
                    Transaction(_generate_transaction_id(t, sfx), self.account_number,
                                "deposit", amount, description, t))])

\* mutant: the balance is reduced before the amount is checked against it
Mutant_withdraw_late_check(self, amount, description, t, sfx) ==
    IF LessEq(amount, Float(0)) THEN Raised("Withdrawal amount must be positive", self)
    ELSE IF ~self.is_active THEN Raised("Account is not active", self)
    ELSE IF Greater(amount, self.balance)
    THEN Raised("Insufficient funds", [self EXCEPT !.balance = Minus(@, amount)])
    ELSE Returned(TRUE,
            [self EXCEPT
                !.balance = Minus(@, amount),
                !.transactions = Append(@,
                    Transaction(_generate_transaction_id(t, sfx), self.account_number,
                                "withdrawal", amount, description, t))])

\* mutant: a withdrawal of more than the balance returns False, raising nothing
Mutant_withdraw_returns_false(self, amount, description, t, sfx) ==
    IF LessEq(amount, Float(0)) THEN Raised("Withdrawal amount must be positive", self)
    ELSE IF ~self.is_active THEN Raised("Account is not active", self)
    ELSE IF Greater(amount, self.balance) THEN Returned(FALSE, self)
    ELSE Returned(TRUE,
            [self EXCEPT
                !.balance = Minus(@, amount),
                !.transactions = Append(@,
                    Transaction(_generate_transaction_id(t, sfx), self.account_number,
                                "withdrawal", amount, description, t))])

BankAccount_withdraw(self, amount, description, t, sfx) ==
    IF LessEq(amount, Float(0)) THEN Raised("Withdrawal amount must be positive", self)
    ELSE IF ~self.is_active THEN Raised("Account is not active", self)
    ELSE IF Greater(amount, self.balance) THEN Raised("Insufficient funds", self)
    ELSE Returned(TRUE,
            [self EXCEPT
                !.balance = Minus(@, amount),
                !.transactions = Append(@,
                    Transaction(_generate_transaction_id(t, sfx), self.account_number,
                                "withdrawal", amount, description, t))])

\* mutant: the deposit into the target is left out
Mutant_transfer_no_deposit(accts, from, to, amount, t, sfx1, sfx2) ==
    LET w == BankAccount_withdraw(accts[from], amount, <<"Transfer to", to>>, t, sfx1)
        accts1 == [accts EXCEPT ![from] = w.self]
    IN  IF w.raised # "" THEN Raised(w.raised, accts)
        ELSE Returned(w.ret, accts1)

\* self and target_account are references into accts (the same object when
\* from = to): the deposit acts on the accounts as the withdrawal left them.
BankAccount_transfer(accts, from, to, amount, t, sfx1, sfx2) ==
    LET w == BankAccount_withdraw(accts[from], amount, <<"Transfer to", to>>, t, sfx1)
        accts1 == [accts EXCEPT ![from] = w.self]
        d == BankAccount_deposit(accts1[to], amount, <<"Transfer from", from>>, t, sfx2)
        accts2 == [accts1 EXCEPT ![to] = d.self]
    IN  IF w.raised # "" THEN Raised(w.raised, accts)
        ELSE IF w.ret
             THEN IF d.raised # "" THEN Raised(d.raised, accts1)
                  ELSE Returned(TRUE, accts2)
             ELSE Returned(FALSE, accts1)

\* mutant: the cutoff is compared with >, so a transaction made exactly days
\* ago is left out
Mutant_history_strict_cutoff(self, days, t) ==
    IF days > DaysSinceMin + (t \div SecondsPerDay)
    THEN Raised("date value out of range", <<>>)
    ELSE LET cutoff_date == t - days * SecondsPerDay
         IN Returned(SelectSeq(self.transactions,
                               LAMBDA x : x.timestamp > cutoff_date), <<>>)

\* cutoff_date is now less days whole days, an OverflowError when that is
\* before datetime.min; the list returned is a new one, self is not touched.
BankAccount_get_transaction_history(self, days, t) ==
    IF days > DaysSinceMin + (t \div SecondsPerDay)
    THEN Raised("date value out of range", <<>>)
    ELSE LET cutoff_date == t - days * SecondsPerDay
         IN Returned(SelectSeq(self.transactions,
                               LAMBDA x : x.timestamp >= cutoff_date), <<>>)

BankAccount_get_balance(self) == self.balance

(***************************************************************************)
(* Bank                                                                    *)
(***************************************************************************)
\* mutant: the first candidate is returned, a key or not
Mutant_generate_no_retry(accts) == AccountNumbers

\* The numbers the retry loop can return: the candidates that are not keys.
_generate_account_number(accts) ==
    {n \in AccountNumbers : n \notin DOMAIN accts}

Put(f, k, v) == [x \in DOMAIN f \cup {k} |-> IF x = k THEN v ELSE f[x]]

\* mutant: the customer is stored before the initial deposit is checked
Mutant_create_stores_customer_first(accts, custs, account_holder, account_type, initial_deposit, t) ==
    IF Less(initial_deposit, Float(0))
    THEN {Raised("Initial deposit cannot be negative",
                 [accounts |-> accts,
                  customers |-> Put(custs, account_holder.email, account_holder)])}
    ELSE {Returned(account_number,
                   [accounts |-> Put(accts, account_number,
                        BankAccount(account_number, account_holder, account_type,
                                    initial_deposit, t)),
                    customers |-> Put(custs, account_holder.email, account_holder)])
            : account_number \in _generate_account_number(accts)}

\* mutant: the customer is stored under the first name, so a creation with a
\* known email and another first name adds an entry
Mutant_create_keys_customer_by_name(accts, custs, account_holder, account_type, initial_deposit, t) ==
    IF Less(initial_deposit, Float(0))
    THEN {Raised("Initial deposit cannot be negative",
                 [accounts |-> accts, customers |-> custs])}
    ELSE {Returned(account_number,
                   [accounts |-> Put(accts, account_number,
                        BankAccount(account_number, account_holder, account_type,
                                    initial_deposit, t)),
                    customers |-> Put(custs, account_holder.first_name, account_holder)])
            : account_number \in _generate_account_number(accts)}

\* The outcomes of create_account, one per number the generator can return;
\* self is the bank: its accounts and its customers.
Bank_create_account(accts, custs, account_holder, account_type, initial_deposit, t) ==
    IF Less(initial_deposit, Float(0))
    THEN {Raised("Initial deposit cannot be negative",
                 [accounts |-> accts, customers |-> custs])}
    ELSE {Returned(account_number,
                   [accounts |-> Put(accts, account_number,
                        BankAccount(account_number, account_holder, account_type,
                                    initial_deposit, t)),
                    customers |-> Put(custs, account_holder.email, account_holder)])
            : account_number \in _generate_account_number(accts)}

Bank_get_account(accts, account_number) ==
    IF account_number \in DOMAIN accts THEN {accts[account_number]} ELSE {}

\* mutant: the destination is looked up before the source
Mutant_transfer_checks_destination_first(accts, from_account, to_account, amount, t, sfx1, sfx2) ==
    IF to_account \notin DOMAIN accts THEN Raised("Destination account not found", accts)
    ELSE IF from_account \notin DOMAIN accts
    THEN Raised("Source account not found", accts)
    ELSE BankAccount_transfer(accts, from_account, to_account, amount, t, sfx1, sfx2)

Bank_transfer_between_accounts(accts, from_account, to_account, amount, t, sfx1, sfx2) ==
    IF from_account \notin DOMAIN accts THEN Raised("Source account not found", accts)
    ELSE IF to_account \notin DOMAIN accts
    THEN Raised("Destination account not found", accts)
    ELSE BankAccount_transfer(accts, from_account, to_account, amount, t, sfx1, sfx2)

(***************************************************************************)
(* The Flask handlers.  last holds the request being served and its       *)
(* response (status code and JSON body) until after_request has sent it.  *)
(* Requests are served one at a time: a handler starts when the server is *)
(* idle.                                                                   *)
(***************************************************************************)
Response(op, request, status, body) ==
    [op |-> op, request |-> request, status |-> status, body |-> body]

Failure(error) == [success |-> FALSE, error |-> error]

Idle == Response("none", <<>>, 200, <<>>)

IsPrefix(s, t) == Len(s) <= Len(t) /\ SubSeq(t, 1, Len(s)) = s

\* the transactions t has after the ones of s
Gained(s, t) == SubSeq(t, Len(s) + 1, Len(t))

TotalTxns(accts) ==
    LET RECURSIVE Sum(_)
        Sum(S) == IF S = {} THEN 0
                  ELSE LET n == CHOOSE x \in S : TRUE
                       IN Len(accts[n].transactions) + Sum(S \ {n})
    IN Sum(DOMAIN accts)

\* Of a Person the model keeps the email and the first name.
Person_to_dict(self) ==
    [first_name |-> self.first_name, email |-> self.email]

Transaction_to_dict(self) ==
    [ transaction_id |-> self.transaction_id,
      account_number |-> self.account_number,
      transaction_type |-> self.transaction_type,
      amount |-> self.amount,
      description |-> self.description,
      timestamp |-> self.timestamp,
      status |-> self.status ]

BankAccount_to_dict(self) ==
    [ account_number |-> self.account_number,
      account_holder |-> Person_to_dict(self.account_holder),
      account_type |-> self.account_type,
      balance |-> self.balance,
      interest_rate |-> self.interest_rate,
      is_active |-> self.is_active,
      date_opened |-> self.date_opened,
      transactions |-> [i \in DOMAIN self.transactions |->
                            Transaction_to_dict(self.transactions[i])] ]

create_account(person, account_type, initial_deposit) ==
    LET request == [person |-> person, account_type |-> account_type,
                    initial_deposit |-> initial_deposit]
    IN  /\ last = Idle
        /\ \E r \in Bank_create_account(accounts, customers, person, account_type,
                                        initial_deposit, now) :
            /\ accounts' = r.self.accounts
            /\ customers' = r.self.customers
            /\ last' = IF r.raised # ""
                       THEN Response("create_account", request, 400, Failure(r.raised))
                       ELSE Response("create_account", request, 200,
                                [success |-> TRUE, account_number |-> r.ret,
                                 message |-> "Account created successfully"])
        /\ UNCHANGED <<now, threads>>

get_account(account_number) ==
    LET request == [account_number |-> account_number]
    IN  /\ last = Idle
        /\ last' = IF Bank_get_account(accounts, account_number) = {}
                   THEN Response("get_account", request, 404, Failure("Account not found"))
                   ELSE Response("get_account", request, 200,
                            [success |-> TRUE,
                             account |-> BankAccount_to_dict(accounts[account_number])])
        /\ UNCHANGED <<accounts, customers, now, threads>>

\* mutant: transactions is one list shared by every account, as a list made
\* an attribute of the class would be
Mutant_deposit_shared_transactions(account_number, amount, sfx) ==
    LET request == [account_number |-> account_number, amount |-> amount]
    IN  /\ last = Idle
        /\ IF Bank_get_account(accounts, account_number) = {}
           THEN /\ last' = Response("deposit", request, 404, Failure("Account not found"))
                /\ UNCHANGED accounts
           ELSE LET r == BankAccount_deposit(accounts[account_number], amount,
                                             NoDescription, now, sfx)
                IN  /\ accounts' =
                         [n \in DOMAIN accounts |->
                            IF n = account_number THEN r.self
                            ELSE [accounts[n] EXCEPT !.transactions =
                                     @ \o Gained(accounts[account_number].transactions,
                                                 r.self.transactions)]]
                    /\ last' = IF r.raised # ""
                               THEN Response("deposit", request, 400, Failure(r.raised))
                               ELSE Response("deposit", request, 200,
                                        [success |-> TRUE,
                                         new_balance |-> BankAccount_get_balance(r.self),
                                         message |-> "Deposit successful"])
        /\ TotalTxns(accounts') <= MaxTxns
        /\ UNCHANGED <<customers, now, threads>>

deposit(account_number, amount, sfx) ==
    LET request == [account_number |-> account_number, amount |-> amount]
    IN  /\ last = Idle
        /\ IF Bank_get_account(accounts, account_number) = {}
           THEN /\ last' = Response("deposit", request, 404, Failure("Account not found"))
                /\ UNCHANGED accounts
           ELSE LET r == BankAccount_deposit(accounts[account_number], amount,
                                             NoDescription, now, sfx)
                IN  /\ accounts' = [accounts EXCEPT ![account_number] = r.self]
                    /\ last' = IF r.raised # ""
                               THEN Response("deposit", request, 400, Failure(r.raised))
                               ELSE Response("deposit", request, 200,
                                        [success |-> TRUE,
                                         new_balance |-> BankAccount_get_balance(r.self),
                                         message |-> "Deposit successful"])
        /\ TotalTxns(accounts') <= MaxTxns
        /\ UNCHANGED <<customers, now, threads>>

\* mutant: the account is looked up inside the domain call, whose error for a
\* missing account is answered like every other one
Mutant_withdraw_unknown_account_400(account_number, amount, sfx) ==
    LET request == [account_number |-> account_number, amount |-> amount]
    IN  /\ last = Idle
        /\ IF Bank_get_account(accounts, account_number) = {}
           THEN /\ last' = Response("withdraw", request, 400, Failure("Account not found"))
                /\ UNCHANGED accounts
           ELSE LET r == BankAccount_withdraw(accounts[account_number], amount,
                                              NoDescription, now, sfx)
                IN  /\ accounts' = [accounts EXCEPT ![account_number] = r.self]
                    /\ last' = IF r.raised # ""
                               THEN Response("withdraw", request, 400, Failure(r.raised))
                               ELSE Response("withdraw", request, 200,
                                        [success |-> TRUE,
                                         new_balance |-> BankAccount_get_balance(r.self),
                                         message |-> "Withdrawal successful"])
        /\ TotalTxns(accounts') <= MaxTxns
        /\ UNCHANGED <<customers, now, threads>>

withdraw(account_number, amount, sfx) ==
    LET request == [account_number |-> account_number, amount |-> amount]
    IN  /\ last = Idle
        /\ IF Bank_get_account(accounts, account_number) = {}
           THEN /\ last' = Response("withdraw", request, 404, Failure("Account not found"))
                /\ UNCHANGED accounts
           ELSE LET r == BankAccount_withdraw(accounts[account_number], amount,
                                              NoDescription, now, sfx)
                IN  /\ accounts' = [accounts EXCEPT ![account_number] = r.self]
                    /\ last' = IF r.raised # ""
                               THEN Response("withdraw", request, 400, Failure(r.raised))
                               ELSE Response("withdraw", request, 200,
                                        [success |-> TRUE,
                                         new_balance |-> BankAccount_get_balance(r.self),
                                         message |-> "Withdrawal successful"])
        /\ TotalTxns(accounts') <= MaxTxns
        /\ UNCHANGED <<customers, now, threads>>

transfer(from_account, to_account, amount, sfx1, sfx2) ==
    LET request == [from_account |-> from_account, to_account |-> to_account,
                    amount |-> amount]
        r == Bank_transfer_between_accounts(accounts, from_account, to_account,
                                            amount, now, sfx1, sfx2)
    IN  /\ last = Idle
        /\ accounts' = r.self
        /\ last' = IF r.raised # ""
                   THEN Response("transfer", request, 400, Failure(r.raised))
                   ELSE IF r.ret
                   THEN Response("transfer", request, 200,
                            [success |-> TRUE, message |-> "Transfer successful"])
                   ELSE Response("transfer", request, 400, Failure("Transfer failed"))
        /\ TotalTxns(accounts') <= MaxTxns
        /\ UNCHANGED <<customers, now, threads>>

\* the response leaves the server, the CORS headers added
after_request ==
    /\ last # Idle
    /\ last' = Idle
    /\ UNCHANGED <<accounts, customers, now, threads>>

get_transactions(account_number, days) ==
    LET request == [account_number |-> account_number, days |-> days]
    IN  /\ last = Idle
        /\ last' =
             IF Bank_get_account(accounts, account_number) = {}
             THEN Response("get_transactions", request, 404, Failure("Account not found"))
             ELSE LET r == BankAccount_get_transaction_history(
                               accounts[account_number], days, now)
                  IN  IF r.raised # ""
                      THEN Response("get_transactions", request, 400, Failure(r.raised))
                      ELSE Response("get_transactions", request, 200,
                               [success |-> TRUE,
                                transactions |-> [i \in DOMAIN r.ret |->
                                                    Transaction_to_dict(r.ret[i])]])
        /\ UNCHANGED <<accounts, customers, now, threads>>

health_check ==
    /\ last = Idle
    /\ last' = Response("health_check", <<>>, 200,
                    [status |-> "healthy", bank_name |-> "Digital Bank",
                     total_accounts |-> Cardinality(DOMAIN accounts),
                     total_customers |-> Cardinality(DOMAIN customers)])
    /\ UNCHANGED <<accounts, customers, now, threads>>

\* Time passes between two requests, by a second or by a day.
Tick(step) ==
    /\ last = Idle
    /\ (now \div SecondsPerDay) + (now % SecondsPerDay) < MaxTime
    /\ now' = now + step
    /\ UNCHANGED <<accounts, customers, last, threads>>

(***************************************************************************)
(* Spec: the handlers served one at a time.                                *)
(***************************************************************************)
NoThreads == <<>>

Init ==
    /\ accounts = <<>>
    /\ customers = <<>>
    /\ now = 0
    /\ last = Idle
    /\ threads = NoThreads

\* One request served, its inputs drawn from the given sets.
Serve(persons, types, amounts, sfxs) ==
    \/ \E p \in persons, ty \in types, d \in amounts : create_account(p, ty, d)
    \/ \E n \in RequestNumbers : get_account(n)
    \/ \E n \in RequestNumbers, a \in amounts, x \in sfxs : deposit(n, a, x)
    \/ \E n \in RequestNumbers, a \in amounts, x \in sfxs : withdraw(n, a, x)
    \/ \E n, m \in RequestNumbers, a \in amounts, x, y \in sfxs : transfer(n, m, a, x, y)
    \/ after_request

Ann == CHOOSE p \in Persons : p.first_name = "Ann"

Next == Serve({Ann}, {"savings"}, Amounts, {1000})

Spec == Init /\ [][Next]_vars

(***************************************************************************)
(* SpecHolders: the same handlers, with every Person and every account    *)
(* type in the creation requests and two amounts, one negative and one    *)
(* positive.                                                               *)
(***************************************************************************)
NextHolders == Serve(Persons, AccountTypes, {Float(-1), Float(MaxAmount)}, {1000})

SpecHolders == Init /\ [][NextHolders]_vars

(***************************************************************************)
(* SpecCustomers: the handlers with every Person in the creation requests, *)
(* and the health check.                                                   *)
(***************************************************************************)
NextCustomers ==
    \/ Serve(Persons, {"savings"}, {Float(-1), Float(MaxAmount)}, {1000})
    \/ health_check

SpecCustomers == Init /\ [][NextCustomers]_vars

(***************************************************************************)
(* SpecTypes: the handlers with every account type in the creation        *)
(* requests, and the two reads.                                            *)
(***************************************************************************)
NextTypes ==
    \/ Serve({Ann}, AccountTypes, {Float(-1), Float(MaxAmount)}, {1000})
    \/ \E n \in RequestNumbers, d \in Days : get_transactions(n, d)
    \/ health_check

SpecTypes == Init /\ [][NextTypes]_vars

(***************************************************************************)
(* SpecLedger: the handlers with amounts of one unit, the largest amount   *)
(* and NaN.                                                                *)
(***************************************************************************)
NextLedger == Serve({Ann}, {"savings"}, {Float(1), Float(MaxAmount), NaN}, {1000})

SpecLedger == Init /\ [][NextLedger]_vars

(***************************************************************************)
(* SpecFrame: a bank of up to three accounts.  The first was opened before *)
(* the requests of the model, under a number of the generator's range that *)
(* the model's generator does not draw again; every handler is served.     *)
(***************************************************************************)
FirstAccount == 55555555

Bob == CHOOSE p \in Persons : p.first_name = "Bob"

FrameNumbers == RequestNumbers \cup {FirstAccount}

InitFrame ==
    /\ accounts = Put(<<>>, FirstAccount,
                      BankAccount(FirstAccount, Bob, "savings", Float(MaxAmount), 0))
    /\ customers = Put(<<>>, Bob.email, Bob)
    /\ now = 0
    /\ last = Idle
    /\ threads = NoThreads

NextFrame ==
    \/ \E d \in {Float(-1), Float(1)} : create_account(Ann, "savings", d)
    \/ \E n \in FrameNumbers : get_account(n)
    \/ \E n \in FrameNumbers, a \in {Float(-1), Float(1)} : deposit(n, a, 1000)
    \/ \E n \in FrameNumbers, a \in {Float(-1), Float(1)} : withdraw(n, a, 1000)
    \/ \E n, m \in FrameNumbers, a \in {Float(-1), Float(1)} :
          transfer(n, m, a, 1000, 1000)
    \/ \E n \in FrameNumbers, d \in Days : get_transactions(n, d)
    \/ health_check
    \/ after_request

SpecFrame == InitFrame /\ [][NextFrame]_vars

(***************************************************************************)
(* SpecReads: the handlers of SpecHolders' amounts for one holder, and the *)
(* two reads: the transaction history and the health check.                *)
(***************************************************************************)
Reads ==
    \/ \E n \in RequestNumbers, d \in Days : get_transactions(n, d)
    \/ health_check

NextReads ==
    \/ Serve({Ann}, {"savings"}, {Float(-1), Float(MaxAmount)}, {1000})
    \/ Reads

SpecReads == Init /\ [][NextReads]_vars

(***************************************************************************)
(* SpecClock: deposits, withdrawals and transfers of one unit with the     *)
(* clock advancing between requests, and the history read.                 *)
(***************************************************************************)
NextClock ==
    \/ Serve({Ann}, {"savings"}, {Float(1)}, {1000})
    \/ \E n \in RequestNumbers, d \in Days : get_transactions(n, d)
    \/ \E step \in {1, SecondsPerDay} : Tick(step)

SpecClock == Init /\ [][NextClock]_vars

(***************************************************************************)
(* SpecIds: the same requests with both ends of the range of the random    *)
(* suffix of a transaction id, and the clock advancing by seconds.         *)
(***************************************************************************)
NextIds ==
    \/ Serve({Ann}, {"savings"}, {Float(1)}, Suffixes)
    \/ Tick(1)

SpecIds == Init /\ [][NextIds]_vars

(***************************************************************************)
(* SpecRetry: create_account with the loop of _generate_account_number    *)
(* run step by step: the draw of a candidate and its test against the     *)
(* keys of bank.accounts.  threads holds the one call in flight.  The     *)
(* random choice is fair: a number that can be drawn again and again is   *)
(* drawn in the end, and the thread that runs the loop is not starved.    *)
(***************************************************************************)
CreateCall(person, account_type, initial_deposit) ==
    [ pc |-> "draw", person |-> person, account_type |-> account_type,
      initial_deposit |-> initial_deposit, account_number |-> 0 ]

\* if initial_deposit < 0: raise; else enter the loop
create_account_enter(person, account_type, initial_deposit) ==
    LET request == [person |-> person, account_type |-> account_type,
                    initial_deposit |-> initial_deposit]
    IN  /\ last = Idle
        /\ threads = NoThreads
        /\ IF Less(initial_deposit, Float(0))
           THEN /\ last' = Response("create_account", request, 400,
                                Failure("Initial deposit cannot be negative"))
                /\ UNCHANGED threads
           ELSE /\ threads' = <<CreateCall(person, account_type, initial_deposit)>>
                /\ UNCHANGED last
        /\ UNCHANGED <<accounts, customers, now>>

\* account_number = f"{random.randint(10000000, 99999999)}"
_generate_account_number_draw(n) ==
    /\ threads # NoThreads
    /\ threads[1].pc = "draw"
    /\ threads' = [threads EXCEPT ![1].pc = "test", ![1].account_number = n]
    /\ UNCHANGED <<accounts, customers, now, last>>

\* mutant: the test is inverted, a candidate is returned when it is a key
Mutant_test_inverted ==
    /\ threads # NoThreads
    /\ threads[1].pc = "test"
    /\ LET call == threads[1]
           request == [person |-> call.person, account_type |-> call.account_type,
                       initial_deposit |-> call.initial_deposit]
       IN  IF call.account_number \in DOMAIN accounts
           THEN /\ accounts' = Put(accounts, call.account_number,
                        BankAccount(call.account_number, call.person,
                                    call.account_type, call.initial_deposit, now))
                /\ customers' = Put(customers, call.person.email, call.person)
                /\ last' = Response("create_account", request, 200,
                                [success |-> TRUE, account_number |-> call.account_number,
                                 message |-> "Account created successfully"])
                /\ threads' = NoThreads
           ELSE /\ threads' = [threads EXCEPT ![1].pc = "draw"]
                /\ UNCHANGED <<accounts, customers, last>>
    /\ UNCHANGED now

\* if account_number not in self.accounts: return account_number, and the
\* rest of create_account and of its handler; else the next turn of the loop
_generate_account_number_test ==
    /\ threads # NoThreads
    /\ threads[1].pc = "test"
    /\ LET call == threads[1]
           request == [person |-> call.person, account_type |-> call.account_type,
                       initial_deposit |-> call.initial_deposit]
       IN  IF call.account_number \notin DOMAIN accounts
           THEN /\ accounts' = Put(accounts, call.account_number,
                        BankAccount(call.account_number, call.person,
                                    call.account_type, call.initial_deposit, now))
                /\ customers' = Put(customers, call.person.email, call.person)
                /\ last' = Response("create_account", request, 200,
                                [success |-> TRUE, account_number |-> call.account_number,
                                 message |-> "Account created successfully"])
                /\ threads' = NoThreads
           ELSE /\ threads' = [threads EXCEPT ![1].pc = "draw"]
                /\ UNCHANGED <<accounts, customers, last>>
    /\ UNCHANGED now

NextRetry ==
    \/ \E d \in Amounts : create_account_enter(Ann, "savings", d)
    \/ \E n \in AccountNumbers : _generate_account_number_draw(n)
    \/ _generate_account_number_test
    \/ after_request

SpecRetry ==
    /\ Init
    /\ [][NextRetry]_vars
    /\ WF_vars(_generate_account_number_test)
    /\ \A n \in AccountNumbers : SF_vars(_generate_account_number_draw(n))

(***************************************************************************)
(* SpecRace: two deposit or withdraw requests on one account, served by   *)
(* two threads with no lock.  A thread can be preempted between any two   *)
(* bytecodes, so the checks of the amount, the load of self.balance, the  *)
(* store of the new balance, the append of the transaction and the read   *)
(* of the balance for the response are steps of their own.  The account   *)
(* was created by the request served last, whose response is still in     *)
(* last.                                                                   *)
(***************************************************************************)
Threads == {1, 2}

RaceAccount == CHOOSE n \in AccountNumbers : TRUE

Request(op, amount) ==
    [ op |-> op, amount |-> amount, pc |-> "check", balance |-> NaN,
      status |-> 0, body |-> <<>> ]

InitRace ==
    /\ \E d \in {x \in Amounts : GreaterEq(x, Float(0))} :
         /\ accounts \in {r.self.accounts :
                r \in Bank_create_account(<<>>, <<>>, Ann, "savings", d, 0)}
         /\ last = Response("create_account",
                        [person |-> Ann, account_type |-> "savings",
                         initial_deposit |-> d],
                        200,
                        [success |-> TRUE, account_number |-> RaceAccount,
                         message |-> "Account created successfully"])
    /\ RaceAccount \in DOMAIN accounts
    /\ customers = Put(<<>>, Ann.email, Ann)
    /\ now = 0
    /\ threads \in [Threads -> {Request(op, a) :
                                    op \in {"deposit", "withdraw"}, a \in Amounts}]

Answer(t, status, body) ==
    [threads EXCEPT ![t].pc = "done", ![t].status = status, ![t].body = body]

\* mutant: withdraw does not check the amount against the balance
Mutant_race_check_without_funds_check(t) ==
    LET self == accounts[RaceAccount]
        req == threads[t]
    IN  /\ req.pc = "check"
        /\ threads' =
             IF LessEq(req.amount, Float(0))
             THEN Answer(t, 400, Failure(IF req.op = "deposit"
                                         THEN "Deposit amount must be positive"
                                         ELSE "Withdrawal amount must be positive"))
             ELSE IF ~self.is_active
             THEN Answer(t, 400, Failure("Account is not active"))
             ELSE [threads EXCEPT ![t].pc = "load"]
        /\ UNCHANGED <<accounts, customers, now, last>>

\* if amount <= 0: raise; if not self.is_active: raise;
\* and in withdraw, if amount > self.balance: raise
race_check(t) ==
    LET self == accounts[RaceAccount]
        req == threads[t]
    IN  /\ req.pc = "check"
        /\ threads' =
             IF req.op = "deposit"
             THEN IF LessEq(req.amount, Float(0))
                  THEN Answer(t, 400, Failure("Deposit amount must be positive"))
                  ELSE IF ~self.is_active
                  THEN Answer(t, 400, Failure("Account is not active"))
                  ELSE [threads EXCEPT ![t].pc = "load"]
             ELSE IF LessEq(req.amount, Float(0))
                  THEN Answer(t, 400, Failure("Withdrawal amount must be positive"))
                  ELSE IF ~self.is_active
                  THEN Answer(t, 400, Failure("Account is not active"))
                  ELSE IF Greater(req.amount, self.balance)
                  THEN Answer(t, 400, Failure("Insufficient funds"))
                  ELSE [threads EXCEPT ![t].pc = "load"]
        /\ UNCHANGED <<accounts, customers, now, last>>

\* self.balance += amount, self.balance -= amount: the load of self.balance
race_load(t) ==
    /\ threads[t].pc = "load"
    /\ threads' = [threads EXCEPT ![t].pc = "store",
                                  ![t].balance = accounts[RaceAccount].balance]
    /\ UNCHANGED <<accounts, customers, now, last>>

\* self.balance += amount, self.balance -= amount: the store of the result
race_store(t) ==
    LET req == threads[t]
    IN  /\ req.pc = "store"
        /\ accounts' = [accounts EXCEPT ![RaceAccount].balance =
                            IF req.op = "deposit"
                            THEN Plus(req.balance, req.amount)
                            ELSE Minus(req.balance, req.amount)]
        /\ threads' = [threads EXCEPT ![t].pc = "append"]
        /\ UNCHANGED <<customers, now, last>>

\* self.transactions.append(transaction); return True
race_append(t, sfx) ==
    LET req == threads[t]
    IN  /\ req.pc = "append"
        /\ accounts' = [accounts EXCEPT ![RaceAccount].transactions = Append(@,
                            Transaction(_generate_transaction_id(now, sfx), RaceAccount,
                                IF req.op = "deposit" THEN "deposit" ELSE "withdrawal",
                                req.amount, NoDescription, now))]
        /\ threads' = [threads EXCEPT ![t].pc = "respond"]
        /\ UNCHANGED <<customers, now, last>>

\* the handler's jsonify, with account.get_balance() read at that moment
race_respond(t) ==
    LET req == threads[t]
    IN  /\ req.pc = "respond"
        /\ threads' = Answer(t, 200,
                [success |-> TRUE,
                 new_balance |-> BankAccount_get_balance(accounts[RaceAccount]),
                 message |-> IF req.op = "deposit" THEN "Deposit successful"
                             ELSE "Withdrawal successful"])
        /\ UNCHANGED <<accounts, customers, now, last>>

NextRace ==
    \E t \in Threads :
        \/ race_check(t)
        \/ race_load(t)
        \/ race_store(t)
        \/ race_append(t, 1000)
        \/ race_respond(t)

SpecRace == InitRace /\ [][NextRace]_vars

(***************************************************************************)
(* Properties.  A step that serves a request goes from the idle server    *)
(* to a state whose last holds that request and its response; the         *)
(* unprimed variables are the state the request found.                    *)
(***************************************************************************)
Served(op) == last.op = op
Serves(op) == last = Idle /\ last'.op = op
Succeeded == last.status = 200 /\ last.body.success
Failed(status, error) ==
    last.status = status /\ ~last.body.success /\ last.body.error = error
Fails(status, error) ==
    last'.status = status /\ ~last'.body.success /\ last'.body.error = error

\* txns is one transaction of the given type and amount, recorded for account n
IsOne(txns, n, type, amount) ==
    /\ Len(txns) = 1
    /\ txns[1].transaction_type = type
    /\ txns[1].amount = amount
    /\ txns[1].account_number = n

\* C1: in every reachable state every account of the bank has balance >= 0.
C1_BalanceNonNegative ==
    \A n \in DOMAIN accounts : GreaterEq(accounts[n].balance, Float(0))

\* what the code keeps instead: a balance is not a number, or it is >= 0
BalanceNonNegativeOrNaN ==
    \A n \in DOMAIN accounts :
        IsNaN(accounts[n].balance) \/ GreaterEq(accounts[n].balance, Float(0))

\* C2 as stated: for any two keys X and Y of the bank, X = Y included, and
\* 0 < A <= balance(X), transfer_between_accounts(X, Y, A) leaves
\* balance(X) = Bx - A and balance(Y) = By + A, X has gained exactly one
\* WITHDRAWAL of amount A and Y exactly one DEPOSIT of amount A.
C2_Original ==
    [][ ( /\ Serves("transfer")
          /\ last'.request.from_account \in DOMAIN accounts
          /\ last'.request.to_account \in DOMAIN accounts
          /\ Less(Float(0), last'.request.amount)
          /\ LessEq(last'.request.amount, accounts[last'.request.from_account].balance) )
        => LET X == last'.request.from_account
               Y == last'.request.to_account
               A == last'.request.amount
               GainedX == Gained(accounts[X].transactions, accounts'[X].transactions)
               GainedY == Gained(accounts[Y].transactions, accounts'[Y].transactions)
           IN  /\ accounts'[X].balance = Minus(accounts[X].balance, A)
               /\ accounts'[Y].balance = Plus(accounts[Y].balance, A)
               /\ Cardinality({i \in DOMAIN GainedX :
                        GainedX[i].transaction_type = "withdrawal"
                        /\ GainedX[i].amount = A}) = 1
               /\ Cardinality({i \in DOMAIN GainedY :
                        GainedY[i].transaction_type = "deposit"
                        /\ GainedY[i].amount = A}) = 1 ]_vars

\* C2 amended: the same for X # Y, where each list gains that one transaction
\* and nothing else; a transfer from X to X leaves balance(X) = Bx and X's list
\* gains one WITHDRAWAL and then one DEPOSIT, both of amount A.
C2_TransferPostcondition ==
    [][ ( /\ Serves("transfer")
          /\ last'.request.from_account \in DOMAIN accounts
          /\ last'.request.to_account \in DOMAIN accounts
          /\ Less(Float(0), last'.request.amount)
          /\ LessEq(last'.request.amount, accounts[last'.request.from_account].balance) )
        => LET X == last'.request.from_account
               Y == last'.request.to_account
               A == last'.request.amount
               GainedX == Gained(accounts[X].transactions, accounts'[X].transactions)
               GainedY == Gained(accounts[Y].transactions, accounts'[Y].transactions)
           IN  /\ last'.status = 200 /\ last'.body.success
               /\ IsPrefix(accounts[X].transactions, accounts'[X].transactions)
               /\ IsPrefix(accounts[Y].transactions, accounts'[Y].transactions)
               /\ IF X # Y
                  THEN /\ accounts'[X].balance = Minus(accounts[X].balance, A)
                       /\ accounts'[Y].balance = Plus(accounts[Y].balance, A)
                       /\ IsOne(GainedX, X, "withdrawal", A)
                       /\ IsOne(GainedY, Y, "deposit", A)
                  ELSE /\ accounts'[X].balance = accounts[X].balance
                       /\ Len(GainedX) = 2
                       /\ IsOne(SubSeq(GainedX, 1, 1), X, "withdrawal", A)
                       /\ IsOne(SubSeq(GainedX, 2, 2), X, "deposit", A) ]_vars

\* a transfer between two different accounts has succeeded
C2_Witness ==
    /\ Served("transfer")
    /\ Succeeded
    /\ last.request.from_account # last.request.to_account

\* C3: a withdraw, or the withdrawal leg of a transfer, with amount > balance
\* fails with "Insufficient funds" and leaves every account as it was.
C3_InsufficientFunds ==
    [][ /\ ( /\ Serves("withdraw")
             /\ last'.request.account_number \in DOMAIN accounts
             /\ Greater(last'.request.amount, accounts[last'.request.account_number].balance) )
           => ( /\ Fails(400, "Insufficient funds")
                /\ accounts' = accounts
                /\ customers' = customers )
        /\ ( /\ Serves("transfer")
             /\ last'.request.from_account \in DOMAIN accounts
             /\ last'.request.to_account \in DOMAIN accounts
             /\ Greater(last'.request.amount, accounts[last'.request.from_account].balance) )
           => ( /\ Fails(400, "Insufficient funds")
                /\ accounts' = accounts
                /\ customers' = customers ) ]_vars

\* a withdrawal of more than a positive balance was refused
C3_Witness ==
    /\ Served("withdraw")
    /\ Failed(400, "Insufficient funds")
    /\ Greater(accounts[last.request.account_number].balance, Float(0))
    /\ accounts[last.request.account_number].transactions # <<>>

\* C4: a deposit or a withdraw with amount <= 0 fails and leaves the balance
\* and the transaction list of the account unchanged, whatever the balance.
C4_NonPositiveAmount ==
    [][ /\ ( /\ Serves("deposit")
             /\ last'.request.account_number \in DOMAIN accounts
             /\ LessEq(last'.request.amount, Float(0)) )
           => ( /\ Fails(400, "Deposit amount must be positive")
                /\ accounts' = accounts )
        /\ ( /\ Serves("withdraw")
             /\ last'.request.account_number \in DOMAIN accounts
             /\ LessEq(last'.request.amount, Float(0)) )
           => ( /\ Fails(400, "Withdrawal amount must be positive")
                /\ accounts' = accounts ) ]_vars

\* a deposit of zero into an account with a positive balance was refused
C4_Witness ==
    /\ Served("deposit")
    /\ last.status = 400
    /\ last.request.amount = Float(0)
    /\ last.request.account_number \in DOMAIN accounts
    /\ Greater(accounts[last.request.account_number].balance, Float(0))

\* C5: a successful deposit (withdraw) appends exactly one DEPOSIT
\* (WITHDRAWAL) transaction of the requested amount at the end of the
\* account's list, and every step leaves every list a prefix of what it
\* becomes.
C5_AppendOnly ==
    [][ /\ \A n \in DOMAIN accounts :
              /\ n \in DOMAIN accounts'
              /\ IsPrefix(accounts[n].transactions, accounts'[n].transactions)
        /\ \A op \in {"deposit", "withdraw"} :
              (Serves(op) /\ last'.status = 200)
              => LET n == last'.request.account_number
                 IN  /\ Len(accounts'[n].transactions) = Len(accounts[n].transactions) + 1
                     /\ IsOne(Gained(accounts[n].transactions, accounts'[n].transactions),
                              n, IF op = "deposit" THEN "deposit" ELSE "withdrawal",
                              last'.request.amount) ]_vars

\* a withdrawal was recorded after an earlier transaction of the account
C5_Witness ==
    /\ Served("withdraw")
    /\ Succeeded
    /\ Len(accounts[last.request.account_number].transactions) = 2
    /\ accounts[last.request.account_number].transactions[2].transaction_type
            = "withdrawal"

\* C6: a successful create_account adds exactly one key, which was no key
\* before, and changes no existing account; no step removes a key.
C6_FreshAccountNumber ==
    [][ /\ DOMAIN accounts \subseteq DOMAIN accounts'
        /\ IF Serves("create_account") /\ last'.status = 200
           THEN LET n == last'.body.account_number
                IN  /\ n \notin DOMAIN accounts
                    /\ DOMAIN accounts' = DOMAIN accounts \cup {n}
                    /\ accounts'[n].account_number = n
                    /\ \A m \in DOMAIN accounts : accounts'[m] = accounts[m]
           ELSE DOMAIN accounts' = DOMAIN accounts ]_vars

\* a second account was created beside an account that has transactions
C6_Witness ==
    /\ Served("create_account")
    /\ Succeeded
    /\ Cardinality(DOMAIN accounts) = 2
    /\ \E n \in DOMAIN accounts : accounts[n].transactions # <<>>

\* C7: a transfer whose source is no key fails with "Source account not
\* found"; otherwise one whose destination is no key fails with "Destination
\* account not found"; both leave every account as it was.
C7_TransferNotFound ==
    [][ Serves("transfer")
        => /\ last'.request.from_account \notin DOMAIN accounts
              => ( /\ Fails(400, "Source account not found")
                   /\ accounts' = accounts )
           /\ ( /\ last'.request.from_account \in DOMAIN accounts
                /\ last'.request.to_account \notin DOMAIN accounts )
              => ( /\ Fails(400, "Destination account not found")
                   /\ accounts' = accounts ) ]_vars

\* a transfer the source could pay was refused for its unknown destination
C7_Witness ==
    /\ Served("transfer")
    /\ Failed(400, "Destination account not found")
    /\ Greater(last.request.amount, Float(0))
    /\ GreaterEq(accounts[last.request.from_account].balance, last.request.amount)

\* C10: a created account has balance D and no transactions, its balance
\* stays D while its transaction list is empty, and GET shows both.
C10_InitialDeposit ==
    [][ /\ (Serves("create_account") /\ last'.status = 200)
           => LET n == last'.body.account_number
              IN  /\ accounts'[n].balance = last'.request.initial_deposit
                  /\ accounts'[n].transactions = <<>>
        /\ \A n \in DOMAIN accounts :
              accounts'[n].transactions = <<>>
              => accounts'[n].balance = accounts[n].balance
        /\ (Serves("get_account") /\ last'.status = 200)
           => LET n == last'.request.account_number
              IN  /\ last'.body.account.balance = accounts[n].balance
                  /\ last'.body.account.transactions = accounts[n].transactions ]_vars

\* GET on an account created with a positive deposit, after other requests
\* were served, shows that balance and no transactions
C10_Witness ==
    /\ Served("get_account")
    /\ Succeeded
    /\ last.body.account.balance = Float(MaxAmount)
    /\ last.body.account.transactions = <<>>
    /\ \E n \in DOMAIN accounts : accounts[n].transactions # <<>>

\* C9: create_account with initial_deposit < 0 fails with the validation
\* error and changes neither the accounts nor the customers.
C9_NegativeInitialDeposit ==
    [][ ( /\ Serves("create_account")
          /\ Less(last'.request.initial_deposit, Float(0)) )
        => ( /\ Fails(400, "Initial deposit cannot be negative")
             /\ accounts' = accounts
             /\ customers' = customers ) ]_vars

\* a creation with a negative deposit was refused for a Person whose email is
\* the key of another Person's customer record, while a number was free
C9_Witness ==
    /\ Served("create_account")
    /\ Failed(400, "Initial deposit cannot be negative")
    /\ last.request.person.email \in DOMAIN customers
    /\ customers[last.request.person.email] # last.request.person
    /\ _generate_account_number(accounts) # {}

(***************************************************************************)
(* The outcomes of the two requests of SpecRace.                           *)
(***************************************************************************)
AllDone == \A t \in Threads : threads[t].pc = "done"
Successful == {t \in Threads : threads[t].status = 200}

\* the account the two requests found
RaceStart == BankAccount(RaceAccount, Ann, "savings", last.request.initial_deposit, 0)

\* the method of BankAccount request t calls, applied to self in one piece
Call(self, t) ==
    IF threads[t].op = "deposit"
    THEN BankAccount_deposit(self, threads[t].amount, NoDescription, now, 1000)
    ELSE BankAccount_withdraw(self, threads[t].amount, NoDescription, now, 1000)

\* the balance and the successful requests when t is served before u
SerialOutcome(t, u) ==
    LET first == Call(RaceStart, t)
        second == Call(first.self, u)
    IN  [ balance |-> second.self.balance,
          successful |-> {x \in {t} : first.raised = ""}
                            \cup {x \in {u} : second.raised = ""} ]

Outcome ==
    [balance |-> accounts[RaceAccount].balance, successful |-> Successful]

Serial ==
    \E t, u \in Threads : t # u /\ Outcome = SerialOutcome(t, u)

\* what request t adds to a balance
Apply(balance, t) ==
    IF threads[t].op = "deposit" THEN Plus(balance, threads[t].amount)
    ELSE Minus(balance, threads[t].amount)

\* both requests succeeded and the balance has the update of one of them only
LostUpdate ==
    /\ Successful = Threads
    /\ \E t \in Threads : accounts[RaceAccount].balance = Apply(RaceStart.balance, t)

\* two withdrawals passed the funds check and together overdrew the account
Overdrawn ==
    /\ Successful = Threads
    /\ \A t \in Threads : threads[t].op = "withdraw"
    /\ \E t, u \in Threads :
         /\ t # u
         /\ accounts[RaceAccount].balance = Apply(Apply(RaceStart.balance, t), u)
    /\ Less(accounts[RaceAccount].balance, Float(0))

\* C8: without a lock the two requests end in the outcome of a serial order,
\* or in one no serial order produces: a lost update, or an overdraft by two
\* withdrawals that each passed the funds check; the transaction list records
\* every successful request all the same.
C8_RaceOutcomes ==
    AllDone =>
        /\ Serial \/ LostUpdate \/ Overdrawn
        /\ Len(accounts[RaceAccount].transactions) = Cardinality(Successful)
        /\ \A t \in Successful :
              \E i \in DOMAIN accounts[RaceAccount].transactions :
                 LET txn == accounts[RaceAccount].transactions[i]
                 IN  /\ txn.amount = threads[t].amount
                     /\ txn.transaction_type =
                            IF threads[t].op = "deposit" THEN "deposit" ELSE "withdrawal"

\* both requests are answered and no serial order gives the balance reached
C8_Witness ==
    /\ AllDone
    /\ ~Serial

(***************************************************************************)
(* The history read                                                        *)
(***************************************************************************)
\* the whole days, rounded up, from the earlier time s to the time t
DaysBetween(s, t) == ((t - s) + SecondsPerDay - 1) \div SecondsPerDay

\* the transaction x was made at or before t and at most days days before it
Within(x, days, t) == x.timestamp <= t /\ DaysBetween(x.timestamp, t) <= days

Dicts(txns) == [i \in DOMAIN txns |-> Transaction_to_dict(txns[i])]

\* C11: a history read of an account with any number of days answers with
\* exactly the transactions of the account made between now - days and now, in
\* the order of the list, and changes no state; with days at least the age of
\* the account it answers with the whole list.
C11_History ==
    [][\A n \in DOMAIN accounts, d \in Days :
          Serves("get_transactions")
          /\ last'.request = [account_number |-> n, days |-> d]
          => /\ last'.status = 200
             /\ last'.body.transactions =
                    Dicts(SelectSeq(accounts[n].transactions,
                                    LAMBDA x : Within(x, d, now)))
             /\ DaysBetween(accounts[n].date_opened, now) <= d
                    => last'.body.transactions = Dicts(accounts[n].transactions)
             /\ UNCHANGED <<accounts, customers, now>>]_vars

\* The same for the days that datetime can subtract from now: those up to
\* the days between datetime.min and now.
HistoryOfRepresentableDays ==
    [][\A n \in DOMAIN accounts, d \in Days :
          Serves("get_transactions")
          /\ last'.request = [account_number |-> n, days |-> d]
          /\ d <= DaysSinceMin
          => /\ last'.status = 200
             /\ last'.body.transactions =
                    Dicts(SelectSeq(accounts[n].transactions,
                                    LAMBDA x : Within(x, d, now)))
             /\ DaysBetween(accounts[n].date_opened, now) <= d
                    => last'.body.transactions = Dicts(accounts[n].transactions)
             /\ UNCHANGED <<accounts, customers, now>>]_vars

\* a read of one day that leaves out a transaction older than a day and keeps
\* a younger one
HistoryFilters ==
    /\ Served("get_transactions")
    /\ last.status = 200
    /\ last.request.days = 1
    /\ Len(last.body.transactions) = 1
    /\ Len(accounts[last.request.account_number].transactions) = 2

(***************************************************************************)
(* Transaction ids                                                         *)
(***************************************************************************)
\* C12: no two transactions recorded in the bank, in one account or in two,
\* carry the same transaction_id.
C12_UniqueTransactionIds ==
    \A n, m \in DOMAIN accounts :
       \A i \in DOMAIN accounts[n].transactions, j \in DOMAIN accounts[m].transactions :
          (n # m \/ i # j)
          => accounts[n].transactions[i].transaction_id
                # accounts[m].transactions[j].transaction_id

(***************************************************************************)
(* Status codes                                                            *)
(***************************************************************************)
\* the requests that name one account in their path
ByAccount == {"get_account", "deposit", "withdraw", "get_transactions"}

\* C13: a GET account, deposit, withdraw or transactions request naming a
\* number that is no account answers 404 with success false and changes no
\* state; with the account found it answers 200, or 400 with success false,
\* and 400 when the amount is not positive or exceeds the balance; a
\* transfer answers 200, or 400 with success false, and 400 when the source
\* or the destination is no account.
C13_StatusMapping ==
    [][/\ \A op \in ByAccount :
            Serves(op) =>
               IF last'.request.account_number \notin DOMAIN accounts
               THEN /\ Fails(404, "Account not found")
                    /\ UNCHANGED <<accounts, customers, now>>
               ELSE \/ last'.status = 200 /\ last'.body.success
                    \/ last'.status = 400 /\ ~last'.body.success
       /\ \A op \in {"deposit", "withdraw"} :
            /\ Serves(op)
            /\ last'.request.account_number \in DOMAIN accounts
            /\ \/ LessEq(last'.request.amount, Float(0))
               \/ /\ op = "withdraw"
                  /\ Greater(last'.request.amount,
                             accounts[last'.request.account_number].balance)
            => last'.status = 400 /\ ~last'.body.success
       /\ Serves("transfer") =>
            /\ \/ last'.status = 200 /\ last'.body.success
               \/ last'.status = 400 /\ ~last'.body.success
            /\ \/ last'.request.from_account \notin DOMAIN accounts
               \/ last'.request.to_account \notin DOMAIN accounts
               \/ LessEq(last'.request.amount, Float(0))
               \/ Greater(last'.request.amount,
                          accounts[last'.request.from_account].balance)
               => last'.status = 400 /\ ~last'.body.success]_vars

\* a withdrawal from a number that is no account of a bank that has accounts
\* was answered 404
C13_Witness ==
    /\ Served("withdraw")
    /\ Failed(404, "Account not found")
    /\ accounts # <<>>
    /\ last.request.account_number \notin DOMAIN accounts

(***************************************************************************)
(* Termination of create_account                                           *)
(***************************************************************************)
\* a create_account call is in the loop of _generate_account_number
InLoop == threads # NoThreads
\* the call has returned: its response is the one being sent
CreateReturned ==
    threads = NoThreads /\ Served("create_account") /\ Succeeded
\* a candidate that is a key was tested: the loop takes another turn and
\* changes nothing of the bank
Retries ==
    /\ InLoop
    /\ threads[1].pc = "test"
    /\ threads[1].account_number \in DOMAIN accounts
    => /\ threads' = [threads EXCEPT ![1].pc = "draw"]
       /\ UNCHANGED <<accounts, customers, last>>

\* C14 as stated: a candidate that is a key is drawn again, and in every
\* reachable state a create_account call in the loop returns in the end.
C14_Original ==
    /\ [][Retries]_vars
    /\ InLoop ~> CreateReturned

\* C14: a candidate that is a key is drawn again, and a create_account call
\* in the loop returns in the end when some number of the range is not a key.
C14_ReturnsWhileANumberIsFree ==
    /\ [][Retries]_vars
    /\ (InLoop /\ _generate_account_number(accounts) # {}) ~> CreateReturned

\* a candidate that is a key was drawn and tested, the loop is at its next
\* draw, and a number of the range is not a key
C14_Witness ==
    /\ InLoop
    /\ threads[1].pc = "draw"
    /\ threads[1].account_number \in DOMAIN accounts
    /\ _generate_account_number(accounts) # {}

\* every number of the range is a key and a call is in the loop
RangeExhausted ==
    InLoop /\ _generate_account_number(accounts) = {}

(***************************************************************************)
(* Customers                                                               *)
(***************************************************************************)
HolderEmails == {accounts[n].account_holder.email : n \in DOMAIN accounts}

\* every entry of customers is under the email of its Person, the holder
\* email of every account is a key, and there are as many customers as
\* distinct holder emails
CustomersByEmail ==
    /\ \A e \in DOMAIN customers : customers[e].email = e
    /\ HolderEmails \subseteq DOMAIN customers
    /\ Cardinality(DOMAIN customers) = Cardinality(HolderEmails)

\* C15: customers is keyed by email, and a creation with a known email puts
\* its Person in the place of the entry and adds none; in every state the
\* holder email of every account is a key of customers and the customers
\* are as many as the distinct holder emails; the health check reports the
\* two sizes, total_customers <= total_accounts.
C15_Customers ==
    [][/\ CustomersByEmail'
       /\ Serves("create_account") /\ last'.status = 200
             /\ last'.request.person.email \in DOMAIN customers
          => /\ DOMAIN customers' = DOMAIN customers
             /\ customers' = [customers EXCEPT ![last'.request.person.email] =
                                                   last'.request.person]
       /\ Serves("health_check")
          => /\ last'.body.total_customers = Cardinality(DOMAIN customers)
             /\ last'.body.total_accounts = Cardinality(DOMAIN accounts)
             /\ last'.body.total_customers <= last'.body.total_accounts]_vars

\* the health check of a bank of two accounts whose holders share an email,
\* the entry of the first overwritten by the second: one customer reported
C15_Witness ==
    /\ Served("health_check")
    /\ last.body.total_accounts = 2
    /\ last.body.total_customers = 1
    /\ \E n \in DOMAIN accounts, e \in DOMAIN customers :
          /\ accounts[n].account_holder.email = e
          /\ accounts[n].account_holder # customers[e]

(***************************************************************************)
(* Attributes fixed at creation                                            *)
(***************************************************************************)
\* the rates of the four account types, in thousandths
FixedRate(account_type) ==
    CASE account_type = "savings" -> 20
      [] account_type = "checking" -> 1
      [] account_type = "business" -> 15
      [] account_type = "student" -> 25

\* C16: every account is active and has the rate of its type; no step
\* removes an account or changes its account_number, account_type,
\* interest_rate or is_active; a history read changes no balance, and a
\* balance that changes does so in a deposit, withdrawal or transfer, by the
\* amount of the request and no interest.
C16_FixedAttributes ==
    [][/\ \A n \in DOMAIN accounts' :
            /\ accounts'[n].is_active
            /\ accounts'[n].account_type \in AccountTypes
            /\ accounts'[n].interest_rate = FixedRate(accounts'[n].account_type)
       /\ \A n \in DOMAIN accounts :
            /\ n \in DOMAIN accounts'
            /\ accounts'[n].account_number = accounts[n].account_number
            /\ accounts'[n].account_type = accounts[n].account_type
            /\ accounts'[n].interest_rate = accounts[n].interest_rate
            /\ accounts'[n].is_active = accounts[n].is_active
            /\ accounts'[n].balance # accounts[n].balance
               => /\ last'.op \in {"deposit", "withdraw", "transfer"}
                  /\ accounts'[n].balance \in
                        { Plus(accounts[n].balance, last'.request.amount),
                          Minus(accounts[n].balance, last'.request.amount) }]_vars

\* the history of a student account that has a transaction was read
C16_Witness ==
    /\ Served("get_transactions")
    /\ Succeeded
    /\ accounts[last.request.account_number].account_type = "student"
    /\ accounts[last.request.account_number].interest_rate = 25
    /\ accounts[last.request.account_number].transactions # <<>>

(***************************************************************************)
(* The ledger                                                              *)
(***************************************************************************)
\* the sum of the amounts of the transactions of the given type
RECURSIVE SumOf(_, _)
SumOf(txns, type) ==
    IF txns = <<>> THEN Float(0)
    ELSE LET rest == SumOf(Tail(txns), type)
         IN  IF Head(txns).transaction_type = type
             THEN Plus(Head(txns).amount, rest)
             ELSE rest

\* the account n was created with the initial deposit d: the response to its
\* creation is the one being sent
CreatedWith(n, d) ==
    /\ Served("create_account")
    /\ Succeeded
    /\ last.body.account_number = n
    /\ last.request.initial_deposit = d

\* the balance of account n is d plus its deposits less its withdrawals
Balanced(n, d) ==
    /\ n \in DOMAIN accounts
    /\ accounts[n].balance =
           Minus(Plus(d, SumOf(accounts[n].transactions, "deposit")),
                 SumOf(accounts[n].transactions, "withdrawal"))

\* every transaction of every account is a DEPOSIT or a WITHDRAWAL and
\* carries the number of the account that holds it
OwnTransactions ==
    \A n \in DOMAIN accounts :
       \A i \in DOMAIN accounts[n].transactions :
          /\ accounts[n].transactions[i].transaction_type \in {"deposit", "withdrawal"}
          /\ accounts[n].transactions[i].account_number = n

TotalBalance(accts) ==
    LET RECURSIVE Sum(_)
        Sum(S) == IF S = {} THEN Float(0)
                  ELSE LET n == CHOOSE x \in S : TRUE
                       IN Plus(accts[n].balance, Sum(S \ {n}))
    IN Sum(DOMAIN accts)

\* both legs of the transfer from x to y of amount a were recorded
BothLegs(x, y, a) ==
    IF x = y
    THEN /\ Len(Gained(accounts[x].transactions, accounts'[x].transactions)) = 2
         /\ IsOne(SubSeq(accounts'[x].transactions,
                         Len(accounts[x].transactions) + 1,
                         Len(accounts[x].transactions) + 1), x, "withdrawal", a)
         /\ IsOne(SubSeq(accounts'[x].transactions,
                         Len(accounts[x].transactions) + 2,
                         Len(accounts[x].transactions) + 2), x, "deposit", a)
    ELSE /\ IsOne(Gained(accounts[x].transactions, accounts'[x].transactions),
                  x, "withdrawal", a)
         /\ IsOne(Gained(accounts[y].transactions, accounts'[y].transactions),
                  y, "deposit", a)

\* the transfer being served did both legs or changed no account
WholeOrNothing ==
    \/ /\ last'.status = 200
       /\ BothLegs(last'.request.from_account, last'.request.to_account,
                   last'.request.amount)
    \/ /\ last'.status = 400
       /\ accounts' = accounts

\* C18: a transfer, from an account to itself included, applies both legs or
\* neither, and the sum of the balances of the bank is after it what it was
\* before.
C18_AllOrNothing ==
    [][Serves("transfer")
       => /\ WholeOrNothing
          /\ TotalBalance(accounts') = TotalBalance(accounts)]_vars

\* The same for the amounts that are numbers: a transfer of NaN passes the
\* checks of both legs and leaves NaN in both balances.
TransferOfANumber ==
    [][Serves("transfer")
       => /\ WholeOrNothing
          /\ ~IsNaN(last'.request.amount)
             => TotalBalance(accounts') = TotalBalance(accounts)]_vars

\* a transfer of a number between two accounts was done
TransferDone ==
    /\ Served("transfer")
    /\ Succeeded
    /\ last.request.from_account # last.request.to_account
    /\ ~IsNaN(last.request.amount)

(***************************************************************************)
(* Frame                                                                   *)
(***************************************************************************)
\* the step changes no account but those of the set S, opens and closes
\* none, and leaves the customers
OnlyChanges(S) ==
    /\ DOMAIN accounts' = DOMAIN accounts
    /\ \A n \in DOMAIN accounts \ S : accounts'[n] = accounts[n]
    /\ customers' = customers

\* C19: a deposit or withdrawal on X, done or refused, changes no account
\* but X, nor the set of account numbers, nor the customers; a transfer from
\* X to Y changes none but X and Y; the reads of an account, of its history
\* and of the health of the bank change no state.
C19_Frame ==
    [][/\ \A op \in {"deposit", "withdraw"} :
            Serves(op) => OnlyChanges({last'.request.account_number})
       /\ Serves("transfer")
            => OnlyChanges({last'.request.from_account, last'.request.to_account})
       /\ \A op \in {"get_account", "get_transactions", "health_check"} :
            Serves(op) => UNCHANGED <<accounts, customers, now, threads>>]_vars

\* a transfer between two accounts was done in a bank that has a third one
C19_Witness ==
    /\ Served("transfer")
    /\ Succeeded
    /\ last.request.from_account # last.request.to_account
    /\ Cardinality(DOMAIN accounts) = 3

(***************************************************************************)
(* The return value of a transfer                                          *)
(***************************************************************************)
\* C20: the call of transfer_between_accounts made for a transfer request,
\* and with it BankAccount.transfer, raises or returns True, never False;
\* the response is never 'Transfer failed', and a refused transfer carries
\* the message of the error raised.
C20_TransferNeverFalse ==
    [][Serves("transfer")
       => LET r == Bank_transfer_between_accounts(accounts,
                       last'.request.from_account, last'.request.to_account,
                       last'.request.amount, now, 1000, 1000)
          IN  /\ r.raised # "" \/ r.ret = TRUE
              /\ ~Fails(400, "Transfer failed")
              /\ last'.status = 400 <=> r.raised # ""
              /\ last'.status = 400 => Fails(400, r.raised)]_vars

\* a transfer of more than the source holds was refused with the message of
\* the error withdraw raised
C20_Witness ==
    /\ Served("transfer")
    /\ Failed(400, "Insufficient funds")
    /\ last.request.from_account # last.request.to_account
    /\ last.request.to_account \in DOMAIN accounts

====
